---- MODULE Spec2Model ----
(***************************************************************************)
(* A model of app.py, the Flask backend of the CD key store.               *)
(*                                                                         *)
(* The database tables (User, Product, Key, Purchase) are the shared       *)
(* state.  Every browser holds one Flask session (a signed cookie) and     *)
(* runs one request at a time; requests of different browsers interleave   *)
(* at the database statements of a handler: each query sees what is        *)
(* committed at that moment and db.session.commit() writes the values the  *)
(* handler computed from what it read.  Handlers that read, compute and    *)
(* then commit are split at those points (success: load the product, pick  *)
(* a key, commit; register: test for a duplicate, commit); the other       *)
(* handlers are single steps.                                              *)
(***************************************************************************)
EXTENDS Integers, Sequences, FiniteSets, TLC

\* ---------------------------------------------------------------- bounds
NumSessions == 2      \* browsers, each with its own session cookie
NumNames == 2         \* usernames and e-mail addresses a form may carry
NumPasswords == 1     \* passwords a registration form may carry
MaxProducts == 2      \* product rows ever inserted
NumProductNames == 2  \* values of a product's name/description/price fields
NumCodes == 2         \* distinct non-blank key codes an upload may carry
MaxFileLen == 2       \* lines of an uploaded CSV file

Sessions == 1..NumSessions
Names == 1..NumNames
Passwords == 1..NumPasswords
LoginPasswords == 1..(NumPasswords + 1)   \* the last one is nobody's password
ProductIds == 1..MaxProducts
ProductNames == 1..NumProductNames
Letters == 1..NumCodes

\* ------------------------------------------------- request input: CSV files
\* A character is a natural number; Blank is a whitespace character.
Blank == 0
\* The first field of a CSV line as it stands in the file.
RawFields == {<<c>> : c \in Letters} \cup {<<Blank, 1, Blank>>}
\* A line as csv.reader yields it: <<>> for an empty line, else its fields
\* (only the first one is read).
Rows == {<<>>} \cup {<<f>> : f \in RawFields}
Files == UNION {[1..n -> Rows] : n \in 0..MaxFileLen}
\* What the upload form carries: no 'file' part, an empty filename, a
\* filename that does not end in .csv, or a .csv file.
UploadKinds == {"nofile", "noname", "notcsv", "csv"}

\* str.strip(): leading and trailing whitespace removed.
RECURSIVE LStrip(_)
LStrip(f) == IF f = <<>> THEN f
             ELSE IF Head(f) = Blank THEN LStrip(Tail(f)) ELSE f
RECURSIVE RStrip(_)
RStrip(f) == IF f = <<>> THEN f
             ELSE IF f[Len(f)] = Blank THEN RStrip(SubSeq(f, 1, Len(f) - 1)) ELSE f
Strip(f) == RStrip(LStrip(f))

\* ------------------------------------------------------- absent values
\* session has no 'user_id' / Query.first() found no row
None == 0
\* session has no 'purchased_key'; no stripped key code equals it
NoKey == <<Blank>>

\* werkzeug's generate_password_hash / check_password_hash: the hash is not
\* the password, and a hash matches the password it was made from only.
generate_password_hash(p) == <<"pbkdf2", p>>
check_password_hash(h, p) == h = generate_password_hash(p)

\* ---------------------------------------------------------------- state
VARIABLES
    users,      \* User table: sequence of rows, id = index
    products,   \* Product table: per id, the row or NoProduct
    nextPid,    \* the id the next inserted Product row gets
    keys,       \* Key table: sequence of rows, id = index
    purchases,  \* Purchase table: sequence of rows, id = index
    session,    \* per browser: the Flask session
    req,        \* per browser: the request in flight (handler position, locals)
    out,        \* the last handler step: its browser, its handler, what it gave
                \* back (response, mail sent, payment provider called) and
                \* the CSV file it read
    issued      \* history: per browser, the code its last completed finalize
                \* issued, until a get_key call of that browser

db == <<users, products, nextPid, keys, purchases>>
vars == <<users, products, nextPid, keys, purchases, session, req, out, issued>>

\* -------------------------------------------------------------- queries
\* no row with this id (never inserted, or deleted)
NoProduct == [present |-> FALSE, name |-> 0, stock |-> 0]
\* Product.query.get_or_404(pid) finds a row
Exists(pid) == pid \in ProductIds /\ products[pid].present
UserIds == 1..Len(users)
KeyIds == 1..Len(keys)

\* User.query.filter_by(username=u).first()
UserByName(u) ==
    IF \E i \in UserIds : users[i].username = u
    THEN CHOOSE i \in UserIds : users[i].username = u
    ELSE None
UsernameTaken(u) == \E i \in UserIds : users[i].username = u
EmailTaken(e) == \E i \in UserIds : users[i].email = e

\* (a slip: the import never looks for an existing key)
KeyCodeExists_Never(c) == FALSE

\* Key.query.filter_by(key_code=c).first() is not None
KeyCodeExists(c) == \E k \in KeyIds : keys[k].key_code = c

\* the rows Key.query.filter_by(product_id=pid, used=False) ranges over
UnusedKeys(pid) == {k \in KeyIds : keys[k].product_id = pid /\ ~keys[k].used}

\* rows holding a foreign key to product pid
References(pid) ==
    (\E k \in KeyIds : keys[k].product_id = pid)
        \/ (\E i \in 1..Len(purchases) : purchases[i].product_id = pid)

\* ------------------------------------------------------------- sessions
EmptySession == [user_id |-> None, is_admin |-> FALSE, purchased_key |-> NoKey]
\* (a slip: the login test is skipped)
LoggedIn_Always(s) == TRUE

\* 'user_id' in session
LoggedIn(s) == session[s].user_id # None
\* (a slip: the admin test asks for a login only)
IsAdminSession_LoginOnly(s) == session[s].user_id # None

\* the test every admin handler starts with, negated:
\* 'user_id' in session and session.get('is_admin')
IsAdminSession(s) == LoggedIn(s) /\ session[s].is_admin

\* ------------------------------------------------------------ responses
NoMail == <<>>
Resp(code, to, flash, body) ==
    [code |-> code, to |-> to, flash |-> flash, body |-> body]
\* the handler has not answered yet
Pending == Resp(0, "", "", NoKey)
Redirect(to, flash) == Resp(302, to, flash, NoKey)
Page(template, flash) == Resp(200, template, flash, NoKey)
Abort(code) == Resp(code, "", "", NoKey)
Json(code, what, body) == Resp(code, what, "", body)
Out(s, op, resp) ==
    [sess |-> s, op |-> op, resp |-> resp, mail |-> NoMail, provider |-> FALSE,
     file |-> <<>>]

\* ---------------------------------------------------- requests in flight
Idle == [pc |-> "idle", pid |-> None, stock |-> 0, key |-> None, form |-> <<>>]
IsIdle(s) == req[s].pc = "idle"

\* ----------------------------------------------------------------- Init
\* db.create_all() gives empty tables.  No handler can create the first
\* administrator (make_admin itself needs one), so the installation has put
\* one into the User table.
Init ==
    /\ users = <<[username |-> 1, email |-> 1,
                  password |-> generate_password_hash(1), is_admin |-> TRUE]>>
    /\ products = [p \in ProductIds |-> NoProduct]
    /\ nextPid = 1
    /\ keys = <<>>
    /\ purchases = <<>>
    /\ session = [s \in Sessions |-> EmptySession]
    /\ req = [s \in Sessions |-> Idle]
    /\ out = Out(1, "none", Pending)
    /\ issued = [s \in Sessions |-> NoKey]

\* A step of browser s that ends its request with response r.
Reply(s, op, r) ==
    /\ out' = Out(s, op, r)
    /\ req' = [req EXCEPT ![s] = Idle]

\* ------------------------------------------------------ public handlers
\* GET /
index(s) ==
    /\ IsIdle(s)
    /\ Reply(s, "index", Page("index.html", ""))
    /\ UNCHANGED <<db, session, issued>>

\* GET /product/<id>
product_detail(s, pid) ==
    /\ IsIdle(s)
    /\ Reply(s, "product_detail",
             IF Exists(pid) THEN Page("product.html", "") ELSE Abort(404))
    /\ UNCHANGED <<db, session, issued>>

\* (a slip: the duplicate test looks at the username only)
UserExists_NameOnly(username, email) == UsernameTaken(username)

\* User.query.filter_by(username=username).first()
\*     or User.query.filter_by(email=email).first()
UserExists(username, email) == UsernameTaken(username) \/ EmailTaken(email)

\* /register, up to the duplicate test
register(s, method, username, email, password) ==
    /\ IsIdle(s)
    /\ IF method = "GET"
       THEN Reply(s, "register", Page("register.html", ""))
       ELSE IF UserExists(username, email)
       THEN Reply(s, "register", Redirect("register", "User already exists."))
       ELSE /\ req' = [req EXCEPT ![s] =
                         [Idle EXCEPT !.pc = "register",
                                      !.form = <<username, email,
                                                 generate_password_hash(password)>>]]
            /\ out' = Out(s, "register", Pending)
    /\ UNCHANGED <<db, session, issued>>

\* The INSERT into the User table: username and email are unique columns.
InsertUserFails(form) == UsernameTaken(form[1]) \/ EmailTaken(form[2])

\* /register, db.session.add(new_user); db.session.commit()
register_commit(s) ==
    /\ req[s].pc = "register"
    /\ IF InsertUserFails(req[s].form)
       THEN /\ Reply(s, "register", Abort(500))
            /\ UNCHANGED users
       ELSE /\ users' = Append(users, [username |-> req[s].form[1],
                                       email |-> req[s].form[2],
                                       password |-> req[s].form[3],
                                       is_admin |-> FALSE])
            /\ Reply(s, "register",
                     Redirect("login", "Registered successfully. Please login."))
    /\ UNCHANGED <<products, nextPid, keys, purchases, session, issued>>

\* /login
login(s, method, username, password) ==
    /\ IsIdle(s)
    /\ LET u == UserByName(username) IN
       IF method = "POST" /\ u # None /\ check_password_hash(users[u].password, password)
       THEN /\ session' = [session EXCEPT ![s].user_id = u,
                                          ![s].is_admin = users[u].is_admin]
            /\ Reply(s, "login", Redirect("index", ""))
       ELSE /\ Reply(s, "login",
                     Page("login.html",
                          IF method = "POST" THEN "Invalid credentials." ELSE ""))
            /\ UNCHANGED session
    /\ UNCHANGED <<db, issued>>

\* /logout: session.clear()
logout(s) ==
    /\ IsIdle(s)
    /\ session' = [session EXCEPT ![s] = EmptySession]
    /\ Reply(s, "logout", Redirect("index", ""))
    /\ UNCHANGED <<db, issued>>

\* (a slip: the key stays in the session after retrieval)
PopPurchasedKey_Keep(s) == session

\* del session['purchased_key']
PopPurchasedKey(s) == [session EXCEPT ![s].purchased_key = NoKey]

\* /get_key
get_key(s) ==
    /\ IsIdle(s)
    /\ IF session[s].purchased_key # NoKey
       THEN /\ session' = PopPurchasedKey(s)
            /\ Reply(s, "get_key", Json(200, "key", session[s].purchased_key))
       ELSE /\ Reply(s, "get_key", Json(404, "error", NoKey))
            /\ UNCHANGED session
    /\ issued' = [issued EXCEPT ![s] = NoKey]
    /\ UNCHANGED db

\* ------------------------------------------------------------- checkout
\* (a slip: the stock test is skipped)
InStock_Always(pid) == TRUE

\* (a slip: the stock test is product.stock < 0)
InStock_NonNegative(pid) == products[pid].stock >= 0

\* the negation of the test product.stock <= 0
InStock(pid) == products[pid].stock > 0

\* POST /create-checkout-session/<id>; stripe.checkout.Session.create either
\* returns a session or raises.
create_checkout_session(s, pid) ==
    /\ IsIdle(s)
    /\ req' = [req EXCEPT ![s] = Idle]
    /\ IF ~LoggedIn(s)
       THEN out' = Out(s, "create_checkout_session",
                       Redirect("login", "Please login to purchase."))
       ELSE IF ~Exists(pid)
       THEN out' = Out(s, "create_checkout_session", Abort(404))
       ELSE IF ~InStock(pid)
       THEN out' = Out(s, "create_checkout_session", Redirect("index", "Out of stock!"))
       ELSE \E created \in BOOLEAN :
              out' = [Out(s, "create_checkout_session",
                          IF created THEN Json(200, "id", NoKey)
                          ELSE Json(403, "error", NoKey))
                      EXCEPT !.provider = TRUE]
    /\ UNCHANGED <<db, session, issued>>

\* GET /success/<id>, up to the load of the product and the user
success(s, pid) ==
    /\ IsIdle(s)
    /\ IF ~LoggedIn(s)
       THEN Reply(s, "success", Redirect("login", ""))
       ELSE IF ~Exists(pid)
       THEN Reply(s, "success", Abort(404))
       ELSE /\ req' = [req EXCEPT ![s] =
                         [Idle EXCEPT !.pc = "success", !.pid = pid,
                                      !.stock = products[pid].stock]]
            /\ out' = Out(s, "success", Pending)
    /\ UNCHANGED <<db, session, issued>>

\* (a slip: the query does not filter on used)
AvailableKeys_IgnoreUsed(pid) == {k \in KeyIds : keys[k].product_id = pid}

\* the rows Key.query.filter_by(product_id=pid, used=False).first() may give
\* (no ORDER BY: any of them)
AvailableKeys(pid) == UnusedKeys(pid)

\* /success: available_key = Key.query.filter_by(...).first()
success_allocate(s) ==
    /\ req[s].pc = "success"
    /\ IF AvailableKeys(req[s].pid) = {}
       THEN Reply(s, "success",
                  Redirect("index", "Error: No key available. Contact support."))
       ELSE \E k \in AvailableKeys(req[s].pid) :
              /\ req' = [req EXCEPT ![s].pc = "allocated", ![s].key = k]
              /\ out' = Out(s, "success", Pending)
    /\ UNCHANGED <<db, session, issued>>

\* (a slip: the stock is written back as it was loaded)
DecrementedStock_Keep(s) == req[s].stock

\* product.stock -= 1, on the Product object loaded at the start
DecrementedStock(s) == req[s].stock - 1

\* (a slip: the flag is flipped)
MarkUsed_Toggle(k) == [keys EXCEPT ![k].used = ~keys[k].used]

\* available_key.used = True
MarkUsed(k) == [keys EXCEPT ![k].used = TRUE]

\* (a slip: the commit is undone when the mail is not delivered)
Committed_UnlessMailFails(delivered, after, before) ==
    IF delivered THEN after ELSE before

\* The table contents after the request: db.session.commit() (line 153)
\* runs before send_key_email (line 156), so what was written stays whether
\* the mail is delivered or not.
Committed(delivered, after, before) == after

\* /success: available_key.used = True; product.stock -= 1;
\* db.session.add(purchase); db.session.commit(); send_key_email(...);
\* session['purchased_key'] = ...   (send_key_email returns or raises)
success_commit(s) ==
    /\ req[s].pc = "allocated"
    /\ LET pid == req[s].pid
           k == req[s].key
           u == session[s].user_id
       IN
       IF ~Exists(pid)
       THEN \* UPDATE product matches no row: the flush raises, nothing is committed
            /\ Reply(s, "success", Abort(500))
            /\ UNCHANGED <<db, session, issued>>
       ELSE /\ req' = [req EXCEPT ![s] = Idle]
            /\ \E delivered \in BOOLEAN :
                 /\ keys' = Committed(delivered, MarkUsed(k), keys)
                 /\ products' = Committed(delivered,
                                   [products EXCEPT ![pid].stock = DecrementedStock(s)],
                                   products)
                 /\ purchases' = Committed(delivered,
                                    Append(purchases, [user_id |-> u, product_id |-> pid,
                                                       key_id |-> k]),
                                    purchases)
                 /\ IF delivered
                    THEN /\ out' = [Out(s, "success", Page("success.html", ""))
                                    EXCEPT !.mail = <<users[u].email, keys[k].key_code,
                                                      products[pid].name>>]
                         /\ session' = [session EXCEPT
                                          ![s].purchased_key = keys[k].key_code]
                         /\ issued' = [issued EXCEPT ![s] = keys[k].key_code]
                    ELSE /\ out' = Out(s, "success", Abort(500))
                         /\ UNCHANGED <<session, issued>>
            /\ UNCHANGED <<users, nextPid>>

\* ------------------------------------------------------- admin handlers
\* flash('Access denied.'); return redirect(url_for('index'))
AccessDenied == Redirect("index", "Access denied.")

\* GET /admin
admin_dashboard(s) ==
    /\ IsIdle(s)
    /\ IF ~IsAdminSession(s)
       THEN Reply(s, "admin_dashboard", AccessDenied)
       ELSE Reply(s, "admin_dashboard", Page("admin/dashboard.html", ""))
    /\ UNCHANGED <<db, session, issued>>

\* /admin/add_product
add_product(s, method, name) ==
    /\ IsIdle(s)
    /\ IF ~IsAdminSession(s)
       THEN /\ Reply(s, "add_product", Redirect("index", ""))
            /\ UNCHANGED <<products, nextPid>>
       ELSE IF method = "GET"
       THEN /\ Reply(s, "add_product", Page("admin/add_product.html", ""))
            /\ UNCHANGED <<products, nextPid>>
       ELSE /\ nextPid <= MaxProducts
            /\ products' = [products EXCEPT ![nextPid] =
                               [present |-> TRUE, name |-> name, stock |-> 0]]
            /\ nextPid' = nextPid + 1
            /\ Reply(s, "add_product", Redirect("admin_dashboard", "Product added."))
    /\ UNCHANGED <<users, keys, purchases, session, issued>>

\* (a slip: the query does not see the rows this request has added)
AddedInThisFile_Unseen(added, key_code) == FALSE

\* Key.query.filter_by(key_code=key_code).first() flushes the session first,
\* so it finds the rows that earlier lines of the file have added.
AddedInThisFile(added, key_code) == \E i \in 1..Len(added) : added[i] = key_code

\* The loop of upload_keys over the lines of the file: the codes it adds as
\* new Key rows, in order.  A line is skipped when it is empty or when a Key
\* with its stripped first field exists, the rows added by earlier lines of
\* this file included (the query flushes them first).
RECURSIVE NewCodes(_, _)
NewCodes(file, added) ==
    IF file = <<>> THEN added
    ELSE LET row == Head(file) IN
         IF row = <<>> THEN NewCodes(Tail(file), added)
         ELSE LET key_code == Strip(row[1]) IN
              IF KeyCodeExists(key_code) \/ AddedInThisFile(added, key_code)
              THEN NewCodes(Tail(file), added)
              ELSE NewCodes(Tail(file), Append(added, key_code))

\* /admin/upload_keys/<id>
upload_keys(s, pid, method, kind, file) ==
    /\ IsIdle(s)
    /\ IF ~IsAdminSession(s)
       THEN /\ Reply(s, "upload_keys", Redirect("index", ""))
            /\ UNCHANGED <<products, keys>>
       ELSE IF ~Exists(pid)
       THEN /\ Reply(s, "upload_keys", Abort(404))
            /\ UNCHANGED <<products, keys>>
       ELSE IF method = "GET"
       THEN /\ Reply(s, "upload_keys", Page("admin/upload_keys.html", ""))
            /\ UNCHANGED <<products, keys>>
       ELSE IF kind = "nofile"
       THEN /\ Reply(s, "upload_keys", Redirect("upload_keys", "No file part"))
            /\ UNCHANGED <<products, keys>>
       ELSE IF kind = "noname"
       THEN /\ Reply(s, "upload_keys", Redirect("upload_keys", "No selected file"))
            /\ UNCHANGED <<products, keys>>
       ELSE IF kind = "notcsv"
       THEN /\ Reply(s, "upload_keys", Page("admin/upload_keys.html", ""))
            /\ UNCHANGED <<products, keys>>
       ELSE LET added == NewCodes(file, <<>>) IN
            /\ keys' = keys \o [i \in 1..Len(added) |->
                                  [product_id |-> pid, key_code |-> added[i],
                                   used |-> FALSE]]
            /\ products' = [products EXCEPT ![pid].stock = @ + Len(added)]
            /\ out' = [Out(s, "upload_keys",
                           Redirect("admin_dashboard", "Keys uploaded and stock updated."))
                       EXCEPT !.file = file]
            /\ req' = [req EXCEPT ![s] = Idle]
    /\ UNCHANGED <<users, nextPid, purchases, session, issued>>

\* /admin/edit_product/<id>
edit_product(s, pid, method, name) ==
    /\ IsIdle(s)
    /\ IF ~IsAdminSession(s)
       THEN /\ Reply(s, "edit_product", Redirect("index", ""))
            /\ UNCHANGED products
       ELSE IF ~Exists(pid)
       THEN /\ Reply(s, "edit_product", Abort(404))
            /\ UNCHANGED products
       ELSE IF method = "GET"
       THEN /\ Reply(s, "edit_product", Page("admin/edit_product.html", ""))
            /\ UNCHANGED products
       ELSE /\ products' = [products EXCEPT ![pid].name = name]
            /\ Reply(s, "edit_product", Redirect("admin_dashboard", "Product updated."))
    /\ UNCHANGED <<users, nextPid, keys, purchases, session, issued>>

\* /admin/delete_product/<id>: db.session.delete(product) issues DELETE FROM
\* product alone (no relationship is declared, so nothing cascades).  Rows
\* that reference the product make the DELETE fail where the database
\* enforces foreign keys, and stay behind where it does not.
delete_product(s, pid) ==
    /\ IsIdle(s)
    /\ IF ~IsAdminSession(s)
       THEN /\ Reply(s, "delete_product", Redirect("index", ""))
            /\ UNCHANGED products
       ELSE IF ~Exists(pid)
       THEN /\ Reply(s, "delete_product", Abort(404))
            /\ UNCHANGED products
       ELSE \E enforced \in BOOLEAN :
              IF enforced /\ References(pid)
              THEN /\ Reply(s, "delete_product", Abort(500))
                   /\ UNCHANGED products
              ELSE /\ products' = [products EXCEPT ![pid] = NoProduct]
                   /\ Reply(s, "delete_product",
                            Redirect("admin_dashboard", "Product deleted."))
    /\ UNCHANGED <<users, nextPid, keys, purchases, session, issued>>

\* /admin/make_admin/<id>
make_admin(s, uid) ==
    /\ IsIdle(s)
    /\ IF ~IsAdminSession(s)
       THEN /\ Reply(s, "make_admin", Redirect("index", ""))
            /\ UNCHANGED users
       ELSE IF uid \notin UserIds
       THEN /\ Reply(s, "make_admin", Abort(404))
            /\ UNCHANGED users
       ELSE /\ users' = [users EXCEPT ![uid].is_admin = TRUE]
            /\ Reply(s, "make_admin",
                     Redirect("admin_dashboard", "User promoted to admin."))
    /\ UNCHANGED <<products, nextPid, keys, purchases, session, issued>>

\* ------------------------------------------------------ specifications
\* The whole application: every handler, from the installed state.
Next ==
    \E s \in Sessions :
        \/ index(s)
        \/ \E pid \in ProductIds : product_detail(s, pid)
        \/ register(s, "GET", 1, 1, 1)
        \/ \E u \in Names, e \in Names, p \in Passwords : register(s, "POST", u, e, p)
        \/ register_commit(s)
        \/ login(s, "GET", 1, 1)
        \/ \E u \in Names, p \in LoginPasswords : login(s, "POST", u, p)
        \/ logout(s)
        \/ get_key(s)
        \/ \E pid \in ProductIds : create_checkout_session(s, pid)
        \/ \E pid \in ProductIds : success(s, pid)
        \/ success_allocate(s)
        \/ success_commit(s)
        \/ admin_dashboard(s)
        \/ add_product(s, "GET", 1)
        \/ \E n \in ProductNames : add_product(s, "POST", n)
        \/ \E pid \in ProductIds : upload_keys(s, pid, "GET", "nofile", <<>>)
        \/ \E pid \in ProductIds, k \in UploadKinds \ {"csv"} :
              upload_keys(s, pid, "POST", k, <<>>)
        \/ \E pid \in ProductIds, f \in Files : upload_keys(s, pid, "POST", "csv", f)
        \/ \E pid \in ProductIds : edit_product(s, pid, "GET", 1)
        \/ \E pid \in ProductIds, n \in ProductNames : edit_product(s, pid, "POST", n)
        \/ \E pid \in ProductIds : delete_product(s, pid)
        \/ \E uid \in Names : make_admin(s, uid)

Spec == Init /\ [][Next]_vars

\* With two browsers the state graph of Spec is too large to enumerate, so
\* the properties are checked under three specifications of the same
\* handlers, each holding every handler that writes the state its
\* properties read.  Each starts where the one before it can arrive.

\* 1. The credential store: registration, login, logout, promotion.
NextAccounts ==
    \E s \in Sessions :
        \/ index(s)
        \/ register(s, "GET", 1, 1, 1)
        \/ \E u \in Names, e \in Names, p \in Passwords : register(s, "POST", u, e, p)
        \/ register_commit(s)
        \/ login(s, "GET", 1, 1)
        \/ \E u \in Names, p \in LoginPasswords : login(s, "POST", u, p)
        \/ logout(s)
        \/ \E uid \in Names : make_admin(s, uid)

SpecAccounts == Init /\ [][NextAccounts]_vars

\* A customer has registered; browser 1 is logged in as the administrator,
\* the other browsers as the customer.
Staffed ==
    /\ users = <<[username |-> 1, email |-> 1,
                  password |-> generate_password_hash(1), is_admin |-> TRUE],
                 [username |-> 2, email |-> 2,
                  password |-> generate_password_hash(1), is_admin |-> FALSE]>>
    /\ session = [s \in Sessions |->
                    IF s = 1
                    THEN [user_id |-> 1, is_admin |-> TRUE, purchased_key |-> NoKey]
                    ELSE [user_id |-> 2, is_admin |-> FALSE, purchased_key |-> NoKey]]
    /\ issued = [s \in Sessions |-> NoKey]

\* 2. The back office and the shop window: the admin handlers and the pages
\* that read the catalogue, called by the administrator, by the customer and
\* (after logout) by anonymous browsers.
InitCatalogue ==
    /\ Staffed
    /\ req = [s \in Sessions |-> Idle]
    /\ products = [p \in ProductIds |-> NoProduct]
    /\ nextPid = 1
    /\ keys = <<>>
    /\ purchases = <<>>
    /\ out = Out(1, "none", Pending)

NextCatalogue ==
    \E s \in Sessions :
        \/ logout(s)
        \/ admin_dashboard(s)
        \/ \E uid \in Names : make_admin(s, uid)
        \/ \E pid \in ProductIds : product_detail(s, pid)
        \/ \E pid \in ProductIds : create_checkout_session(s, pid)
        \/ add_product(s, "GET", 1)
        \/ \E n \in ProductNames : add_product(s, "POST", n)
        \/ \E pid \in ProductIds : upload_keys(s, pid, "GET", "nofile", <<>>)
        \/ \E pid \in ProductIds, k \in UploadKinds \ {"csv"} :
              upload_keys(s, pid, "POST", k, <<>>)
        \/ \E pid \in ProductIds, f \in Files : upload_keys(s, pid, "POST", "csv", f)
        \/ \E pid \in ProductIds : edit_product(s, pid, "GET", 1)
        \/ \E pid \in ProductIds, n \in ProductNames : edit_product(s, pid, "POST", n)
        \/ \E pid \in ProductIds : delete_product(s, pid)

SpecCatalogue == InitCatalogue /\ [][NextCatalogue]_vars

\* 3. The storefront: one product is on sale; the administrator imports
\* keys and may delete the product while the browsers check out.
InitCheckout ==
    /\ Staffed
    /\ req = [s \in Sessions |-> Idle]
    /\ products = [p \in ProductIds |->
                     IF p = 1 THEN [present |-> TRUE, name |-> 1, stock |-> 0]
                     ELSE NoProduct]
    /\ nextPid = 2
    /\ keys = <<>>
    /\ purchases = <<>>
    /\ out = Out(1, "none", Pending)

NextCheckout ==
    \E s \in Sessions :
        \/ \E pid \in ProductIds : success(s, pid)
        \/ success_allocate(s)
        \/ success_commit(s)
        \/ get_key(s)
        \/ logout(s)
        \/ \E pid \in ProductIds, f \in Files : upload_keys(s, pid, "POST", "csv", f)
        \/ \E pid \in ProductIds : delete_product(s, pid)

SpecCheckout == InitCheckout /\ [][NextCheckout]_vars

\* 3a. The shop after its first sale: product 1 holds one key, sold to
\* the administrator, who has read its code and
\* is logged in at browser 1.  Customers register and log in; the browsers
\* check out, read their keys and log out, while the administrator imports
\* single-line files, edits the product and promotes users.
InitLedger ==
    /\ users = <<[username |-> 1, email |-> 1,
                  password |-> generate_password_hash(1), is_admin |-> TRUE]>>
    /\ session = [s \in Sessions |->
                    IF s = 1
                    THEN [user_id |-> 1, is_admin |-> TRUE, purchased_key |-> NoKey]
                    ELSE EmptySession]
    /\ issued = [s \in Sessions |-> NoKey]
    /\ req = [s \in Sessions |-> Idle]
    /\ keys = <<[product_id |-> 1, key_code |-> <<1>>, used |-> TRUE]>>
    /\ products = [p \in ProductIds |->
                     IF p = 1 THEN [present |-> TRUE, name |-> 1, stock |-> 0]
                     ELSE NoProduct]
    /\ nextPid = 2
    /\ purchases = <<[user_id |-> 1, product_id |-> 1, key_id |-> 1]>>
    /\ out = Out(1, "none", Pending)

NextLedger ==
    \E s \in Sessions :
        \/ success(s, 1)
        \/ success_allocate(s)
        \/ success_commit(s)
        \/ get_key(s)
        \/ logout(s)
        \/ \E u \in Names : login(s, "POST", u, 1)
        \/ \E u \in Names, e \in Names, p \in Passwords : register(s, "POST", u, e, p)
        \/ register_commit(s)
        \/ \E uid \in Names : make_admin(s, uid)
        \/ \E n \in ProductNames : edit_product(s, 1, "POST", n)
        \/ \E f \in {g \in Files : Len(g) = 1} : upload_keys(s, 1, "POST", "csv", f)

SpecLedger == InitLedger /\ [][NextLedger]_vars

\* 4. The race of the spec's concurrency property: product 1 holds M unused
\* keys and stock M, and every browser has sent its finalize request, which
\* has loaded the product; the requests then run to their end.  Every
\* browser is logged in, as the administrator or as the customer.
InitRace ==
    /\ users = <<[username |-> 1, email |-> 1,
                  password |-> generate_password_hash(1), is_admin |-> TRUE],
                 [username |-> 2, email |-> 2,
                  password |-> generate_password_hash(1), is_admin |-> FALSE]>>
    /\ session \in [Sessions ->
                     {[user_id |-> 1, is_admin |-> TRUE, purchased_key |-> NoKey],
                      [user_id |-> 2, is_admin |-> FALSE, purchased_key |-> NoKey]}]
    /\ issued = [s \in Sessions |-> NoKey]
    /\ \E M \in 0..NumCodes :
         /\ keys = [i \in 1..M |-> [product_id |-> 1, key_code |-> <<i>>, used |-> FALSE]]
         /\ products = [p \in ProductIds |->
                          IF p = 1 THEN [present |-> TRUE, name |-> 1, stock |-> M]
                          ELSE NoProduct]
         /\ req = [s \in Sessions |->
                     [Idle EXCEPT !.pc = "success", !.pid = 1, !.stock = M]]
    /\ nextPid = 2
    /\ purchases = <<>>
    /\ out = Out(1, "success", Pending)

NextRace == \E s \in Sessions : success_allocate(s) \/ success_commit(s)

SpecRace == InitRace /\ [][NextRace]_vars

\* ------------------------------------------------------------ properties
Quiet == \A s \in Sessions : req[s].pc = "idle"
\* the session of browser s is not an admin session
NonAdmin(s) == session[s].user_id = None \/ ~session[s].is_admin
Exhausted == Redirect("index", "Error: No key available. Contact support.")
\* the keys of product pid that are not marked used
Unused(pid) == {k \in 1..Len(keys) : keys[k].product_id = pid /\ ~keys[k].used}

\* C1: in every state, the stock of every product that exists equals the
\* number of its keys that are not used.
StockEqualsUnusedKeys ==
    \A pid \in ProductIds :
        products[pid].present => products[pid].stock = Cardinality(Unused(pid))

\* C2: no two Purchase rows reference the same key.
NoKeyIssuedTwice ==
    \A i, j \in 1..Len(purchases) :
        i # j => purchases[i].key_id # purchases[j].key_id

\* C3: when the N simultaneous finalize calls on a product with M < N unused
\* keys have all ended, exactly M purchases are recorded (the other N - M
\* calls ended with 'No key available') and the stock is the prior stock, M,
\* minus M.
RaceSellsEachKeyOnce ==
    (Quiet /\ Len(keys) < NumSessions) =>
        /\ Len(purchases) = Len(keys)
        /\ products[1].stock = 0

\* C4: a finalize whose key query finds no unused key of the product answers
\* 'No key available' and leaves every table and the session as they were.
ExhaustedChangesNothing ==
    [][\A s \in Sessions :
          (req[s].pc = "success" /\ req'[s] # req[s] /\ Unused(req[s].pid) = {})
              => /\ out'.op = "success" /\ out'.resp = Exhausted
                 /\ out'.mail = NoMail
                 /\ req'[s].pc = "idle"
                 /\ UNCHANGED <<users, products, nextPid, keys, purchases, session>>]_vars

\* C4 witness: a finalize has just been answered 'No key available' for a
\* product that exists and is sold out.
ExhaustedSeen ==
    /\ out.op = "success" /\ out.resp = Exhausted
    /\ \E pid \in ProductIds :
         /\ products[pid].present /\ Unused(pid) = {}
         /\ \E k \in 1..Len(keys) : keys[k].product_id = pid

\* C5: the commit of a finalize of user U for product P marks one key of P
\* that was unused as used, takes one from P's stock and appends one Purchase
\* row (U, P, that key); nothing else changes.
FinalizeIssuesOneUnusedKey ==
    [][\A s \in Sessions :
          (req[s].pc = "allocated" /\ req'[s] # req[s] /\ purchases' # purchases)
              => LET k == req[s].key
                     pid == req[s].pid
                 IN /\ keys[k].product_id = pid /\ ~keys[k].used
                    /\ keys' = [keys EXCEPT ![k].used = TRUE]
                    /\ products' = [products EXCEPT ![pid].stock = products[pid].stock - 1]
                    /\ purchases' = Append(purchases,
                                           [user_id |-> session[s].user_id,
                                            product_id |-> pid, key_id |-> k])
                    /\ UNCHANGED <<users, nextPid>>]_vars

\* the key codes the inventory holds
Codes == {keys[k].key_code : k \in 1..Len(keys)}
Uploaded == Redirect("admin_dashboard", "Keys uploaded and stock updated.")

AdminOps == {"admin_dashboard", "add_product", "upload_keys", "edit_product",
             "delete_product", "make_admin"}

\* C7: a request to an admin handler from a session that is not an admin
\* session is answered with a redirect to the index page and changes no
\* User, Product, Key or Purchase row.
NonAdminChangesNothing ==
    [][(out'.op \in AdminOps /\ NonAdmin(out'.sess))
          => /\ UNCHANGED <<users, products, nextPid, keys, purchases, session>>
             /\ out'.resp.code = 302 /\ out'.resp.to = "index"]_vars

\* C7 witness: a delete_product request of a logged-in browser that is not
\* an admin has just been turned away while a product with a key exists.
NonAdminTurnedAway ==
    /\ out.op = "delete_product" /\ out.resp.code = 302 /\ out.resp.to = "index"
    /\ session[out.sess].user_id # None /\ ~session[out.sess].is_admin
    /\ \E pid \in ProductIds :
         products[pid].present /\ \E k \in 1..Len(keys) : keys[k].product_id = pid

\* C8: every admin handler turns a non-admin caller away with the same
\* response, the redirect and notice admin_dashboard gives.
AdminRejectionsIdentical ==
    [][(out'.op \in AdminOps /\ NonAdmin(out'.sess)) => out'.resp = AccessDenied]_vars

\* C9: usernames are pairwise distinct and e-mail addresses are pairwise
\* distinct in every state, and a registration whose username or e-mail a
\* user already holds is answered 'User already exists.' and leaves the
\* User table as it was.
RegistrationKeepsUsersUnique ==
    /\ [](\A i, j \in 1..Len(users) :
            i # j => users[i].username # users[j].username
                     /\ users[i].email # users[j].email)
    /\ [][\A s \in Sessions, u \in Names, e \in Names, p \in Passwords :
            (/\ \E i \in 1..Len(users) : users[i].username = u \/ users[i].email = e
             /\ register(s, "POST", u, e, p))
                => /\ users' = users
                   /\ req'[s].pc = "idle"
                   /\ out'.resp = Redirect("register", "User already exists.")]_vars

\* C9 witness: a registration has just been refused as a duplicate while a
\* registered customer exists.
DuplicateRegistrationRefused ==
    /\ out.op = "register" /\ out.resp.flash = "User already exists."
    /\ Len(users) >= 2

\* C10: a finalize that completes puts the code of the key it issued into
\* the caller's session; the code stays there until that browser's next
\* completed finalize, get_key call or logout (which ends the session);
\* get_key returns the code the session holds, the one the last completed
\* finalize issued, and removes it, and with no code held it answers the
\* 'No key available' error.
GetKeyReadsOnce ==
    /\ [](\A s \in Sessions : session[s].purchased_key \in {NoKey, issued[s]})
    /\ [][\A s \in Sessions :
            /\ (req[s].pc = "allocated" /\ out'.sess = s /\ out'.resp.code = 200)
                  => /\ session'[s].purchased_key = keys[req[s].key].key_code
                     /\ session'[s].purchased_key # NoKey
                     /\ keys'[req[s].key].used
            /\ get_key(s) =>
                  /\ session'[s].purchased_key = NoKey
                  /\ IF session[s].purchased_key # NoKey
                     THEN out'.resp = Json(200, "key", issued[s])
                     ELSE out'.resp = Json(404, "error", NoKey)
            /\ session'[s].purchased_key # session[s].purchased_key
                  => out'.sess = s /\ out'.op \in {"success", "get_key", "logout"}]_vars

\* C10 witness: a get_key call has just returned a code, the session of a
\* browser that bought holds none, and a key is used.
KeyRetrieved ==
    /\ out.op = "get_key" /\ out.resp.code = 200
    /\ \E k \in 1..Len(keys) : keys[k].used /\ out.resp.body = keys[k].key_code
    /\ \E s \in Sessions : session[s].user_id # None
                            /\ session[s].purchased_key = NoKey
                            /\ \E i \in 1..Len(purchases) :
                                 purchases[i].user_id = session[s].user_id

\* C11: a finalize whose mail cannot be sent (the product exists at the
\* commit and the request ends with an error) has marked its key used,
\* written the stock it loaded minus one and appended the Purchase row of
\* the caller, the product and that key; and no later step removes or
\* changes a Purchase row, resets the key it references or changes that
\* key's code, so the issued code can be read from the purchase record.
MailFailureKeepsCommit ==
    /\ [][\A s \in Sessions :
            (/\ req[s].pc = "allocated" /\ req'[s].pc = "idle"
             /\ products[req[s].pid].present
             /\ out'.resp = Abort(500))
                => /\ keys' = [keys EXCEPT ![req[s].key].used = TRUE]
                   /\ products'[req[s].pid].stock = req[s].stock - 1
                   /\ purchases' = Append(purchases,
                                          [user_id |-> session[s].user_id,
                                           product_id |-> req[s].pid,
                                           key_id |-> req[s].key])
                   /\ out'.mail = NoMail
                   /\ session' = session]_vars
    /\ [][\A i \in 1..Len(purchases) :
            /\ Len(purchases') >= i /\ purchases'[i] = purchases[i]
            /\ Len(keys') >= purchases[i].key_id
            /\ keys'[purchases[i].key_id].used
            /\ keys'[purchases[i].key_id].key_code
                  = keys[purchases[i].key_id].key_code]_vars

\* C11 witness: a finalize has just ended with an error, its browser holds
\* no code, and the caller's purchase of a used key is in the ledger.
MailFailedPurchaseKept ==
    /\ out.op = "success" /\ out.resp = Abort(500)
    /\ session[out.sess].purchased_key = NoKey
    /\ \E i \in 1..Len(purchases) :
         /\ purchases[i].user_id = session[out.sess].user_id
         /\ keys[purchases[i].key_id].used

\* C12: a delete_product request of the administrator for a product that
\* exists removes the product and every key of it: the request does not
\* fail, and after it no Key row references the product removed.
DeleteRemovesKeys ==
    [][(out'.op = "delete_product" /\ session[out'.sess].user_id # None
        /\ session[out'.sess].is_admin)
          => /\ out'.resp.code # 500
             /\ \A pid \in ProductIds :
                  (products[pid].present /\ ~products'[pid].present)
                      => \A k \in 1..Len(keys') : keys'[k].product_id # pid]_vars

\* C13: a create_checkout_session request leaves the User, Product, Key
\* and Purchase tables, every stock and the session as they were, whatever
\* its outcome: an anonymous caller is sent to the login page and a caller
\* for a product with stock <= 0 to the index page, both without a call to
\* the provider; and when the provider is called the answer is the session
\* id or, when the provider fails, the error result with status 403.
InitiateChangesNothing ==
    [][\A s \in Sessions, pid \in ProductIds :
          create_checkout_session(s, pid) =>
              /\ UNCHANGED <<users, products, nextPid, keys, purchases, session>>
              /\ out'.mail = NoMail
              /\ session[s].user_id = None
                    => /\ out'.resp = Redirect("login", "Please login to purchase.")
                       /\ ~out'.provider
              /\ (session[s].user_id # None /\ products[pid].present
                   /\ products[pid].stock <= 0)
                    => /\ out'.resp = Redirect("index", "Out of stock!")
                       /\ ~out'.provider
              /\ out'.provider
                    => out'.resp \in {Json(200, "id", NoKey), Json(403, "error", NoKey)}]_vars

\* C13 witness: the provider has just failed on a checkout request, which
\* was answered with the error result, while a product holds keys and stock.
ProviderFailureSeen ==
    /\ out.op = "create_checkout_session" /\ out.provider
    /\ out.resp = Json(403, "error", NoKey)
    /\ \E pid \in ProductIds : products[pid].present /\ products[pid].stock > 0
    /\ keys # <<>>

\* C17: a create_checkout_session request calls the payment provider only
\* if the caller's session holds a user id and the product exists with a
\* stock greater than zero when the request runs.
ProviderOnlyWhenInStock ==
    [][\A s \in Sessions, pid \in ProductIds :
          (create_checkout_session(s, pid) /\ out'.provider)
              => /\ session[s].user_id # None
                 /\ products[pid].present
                 /\ products[pid].stock > 0]_vars

\* C17 witness: the provider has just created a payment session for a
\* logged-in caller, and a product is in stock.
ProviderSessionCreated ==
    /\ out.op = "create_checkout_session" /\ out.provider /\ out.resp.code = 200
    /\ session[out.sess].user_id # None
    /\ \E pid \in ProductIds : products[pid].present /\ products[pid].stock > 0

\* C14: a finalize of a logged-in caller is turned away only when the
\* product is unknown, whatever the caller bought before and with no
\* initiate step before it; and when the caller already holds a purchase of
\* the product, the key query of the new finalize, if any key of the
\* product is unused, takes an unused key, which is the key of none of
\* those purchases, and its commit appends one more Purchase row of the
\* caller, the product and that key, marks the key used and writes the
\* stock it loaded minus one.
FinalizeReplayIssuesAgain ==
    [][\A s \in Sessions :
          LET u == session[s].user_id
              pid == req[s].pid
              Bought == {i \in 1..Len(purchases) :
                           purchases[i].user_id = u /\ purchases[i].product_id = pid}
          IN
          /\ (req[s].pc = "idle" /\ out'.op = "success" /\ out'.sess = s /\ u # None)
                => req'[s].pc = "success" \/ out'.resp = Abort(404)
          /\ (Bought # {} /\ req[s].pc = "success" /\ req'[s] # req[s]
               /\ Unused(pid) # {})
                => /\ req'[s].pc = "allocated"
                   /\ req'[s].key \in Unused(pid)
                   /\ \A i \in Bought : purchases[i].key_id # req'[s].key
          /\ (Bought # {} /\ req[s].pc = "allocated" /\ req'[s] # req[s]
               /\ products[pid].present)
                => /\ purchases' = Append(purchases,
                                          [user_id |-> u, product_id |-> pid,
                                           key_id |-> req[s].key])
                   /\ keys'[req[s].key].used
                   /\ products'[pid].stock = req[s].stock - 1]_vars

\* C14 witness: a finalize has just completed and the ledger holds two
\* purchases of its caller for one product, with different keys.
SecondKeyIssued ==
    /\ out.op = "success" /\ out.resp.code = 200
    /\ \E i, j \in 1..Len(purchases) :
         /\ i # j
         /\ purchases[i].user_id = session[out.sess].user_id
         /\ purchases[j].user_id = session[out.sess].user_id
         /\ purchases[i].product_id = purchases[j].product_id
         /\ purchases[i].key_id # purchases[j].key_id

\* C15: in every state a key is marked used if and only if exactly one
\* Purchase row references it.
UsedIffOnePurchase ==
    \A k \in 1..Len(keys) :
        keys[k].used <=>
            Cardinality({i \in 1..Len(purchases) : purchases[i].key_id = k}) = 1

\* C18: the stock of every product that exists is at least zero in every
\* state.
StockNeverNegative ==
    \A pid \in ProductIds : products[pid].present => products[pid].stock >= 0

\* C19: a finalize request of a browser whose session holds no user id is
\* answered at once with the redirect to the login page: it marks no key,
\* changes no stock, writes no Purchase row, sends no mail and puts no
\* code into the session.
AnonymousFinalizeIssuesNothing ==
    [][\A s \in Sessions :
          (session[s].user_id = None /\ out'.sess = s /\ out'.op = "success")
              => /\ UNCHANGED <<users, products, nextPid, keys, purchases, session>>
                 /\ out'.resp = Redirect("login", "")
                 /\ out'.mail = NoMail
                 /\ req[s].pc = "idle" /\ req'[s].pc = "idle"]_vars

\* C19 witness: a finalize of a browser with no login has just been sent to
\* the login page while a product that exists holds an unused key.
AnonymousFinalizeTurnedAway ==
    /\ out.op = "success" /\ out.resp = Redirect("login", "")
    /\ session[out.sess] = EmptySession
    /\ \E pid \in ProductIds : products[pid].present /\ Unused(pid) # {}

\* C16: no step removes a Key row or takes a key that is marked used back
\* to unused.
UsedNeverReverts ==
    [][\A k \in 1..Len(keys) :
          /\ Len(keys') >= k
          /\ keys[k].used => keys'[k].used]_vars

\* C16 witness: an import has just run while a customer is registered, an
\* imported key has been sold beside the first one, and a browser holds
\* the code of a key.
UsedKeysAfterImport ==
    /\ out.op = "upload_keys" /\ out.resp = Uploaded
    /\ Len(users) >= 2
    /\ \E k, l \in 1..Len(keys) : k # l /\ keys[k].used /\ keys[l].used
    /\ \E s \in Sessions : session[s].purchased_key # NoKey

\* the key codes a CSV file carries: the stripped first field of every line
\* that is not empty
FileCodes(file) == {Strip(file[i][1]) : i \in {j \in 1..Len(file) : file[j] # <<>>}}

====
